---- MODULE Spec2Model ----
(***************************************************************************)
(* Geocode resolution service of lava/bingmap/geoService.ts: the override  *)
(* table (_injected), the bootstrap snapshot (_initCache), the adaptive    *)
(* cache (geocodeCache), the FIFO request queue (geocodeQueue) and the     *)
(* concurrency throttle (activeRequests, releaseQuota, setTimeout timers). *)
(*                                                                         *)
(* One action per exported operation or event-loop callback.  JavaScript   *)
(* runs each of them to completion, so each is one atomic step.            *)
(* Completion callbacks are modelled as recording their argument; they do  *)
(* not throw and do not call back into the service.                        *)
(***************************************************************************)
EXTENDS Integers, Sequences, FiniteSets, TLC

\* ---------------------------------------------------------------- bounds
MaxRequests == 3        \* number of query(addr, then) calls in a behaviour
MaxConcurrentBound == 2 \* settings.MaxAzureRequest ranges over 1..this
MaxCacheBound == 1      \* settings.MaxCacheSize ranges over 1..this
MaxOverflowBound == 1   \* settings.MaxCacheSizeOverflow ranges over 0..this
MaxHits == 1            \* cap on _cacheHits raised by query(addr) lookups
MaxResets == 1          \* number of reset() calls in a behaviour
MaxTableRequests == 2   \* query(addr, then) calls in a behaviour of SpecTables
MaxInjectKeys == 2      \* keys of one inject argument in SpecOverrides
MaxEvictCacheSize == 3  \* settings.MaxCacheSize ranges over 1..this in SpecCacheQuery

\* ------------------------------------------------------- address strings
Texts == {"Ab", "ab", "cd", "ef"}

\* String.prototype.toLowerCase on the address strings of the model
toLowerCase(s) == IF s = "Ab" THEN "ab" ELSE s

\* ------------------------------------------------------------- locations
\* An ILocation object.  origin/n stand for the object's payload
\* (latitude, longitude, type, name); address is the mutable field.
Location(origin, n, address) == [origin |-> origin, n |-> n, address |-> address]

\* undefined / null: the falsy value passed to a completion on failure and
\* storable as a value of an injected table
Undefined == [origin |-> "undefined", n |-> 0, address |-> ""]

\* {} : an object with no own keys
EmptyMap == [k \in {} |-> Undefined]

\* JavaScript truthiness of a location-or-null value
Truthy(v) == v # Undefined

\* new GeocodeQuery(query)
GeocodeQuery(query) == [query |-> query, key |-> toLowerCase(query), _cacheHits |-> 0]

VARIABLES
    settings,          \* MaxAzureRequest, MaxCacheSize, MaxCacheSizeOverflow
    _injected,         \* override table: address -> location or null
    _initCache,        \* snapshot table: address -> location
    geocodeCache,      \* key -> [query, coordinate]
    geocodeQueue,      \* sequence of [id, query]; id names the `then` closure
    activeRequests,
    dequeueTimeoutId,  \* 0 = null, else the timer set by the last completeRequest
    timers,            \* pending setTimeout(() => releaseQuota(1)) callbacks
    inflight,          \* items whose fetch() has been issued and not settled
    requests,          \* history: one record per query(addr, then) call
    calls,             \* history: per request, the arguments its `then` received
    dispatched,        \* history: request ids in the order makeRequest took them
    fetched,           \* history: request ids for which fetch() was issued
    resets,            \* history: number of reset() calls so far
    dropped,           \* history: ids that were in the queue when reset() ran
    evicted            \* history: key -> hit count of what the last cacheQuery deleted

vars == <<settings, _injected, _initCache, geocodeCache, geocodeQueue,
          activeRequests, dequeueTimeoutId, timers, inflight, requests,
          calls, dispatched, fetched, resets, dropped, evicted>>

\* ------------------------------------------------------------ adaptive cache

\* getCacheSize(): Object.keys(geocodeCache).length
getCacheSize == Cardinality(DOMAIN geocodeCache)

\* GeocodeQuery.incrementCacheHit applied to the query held by cache[key]
incrementCacheHit(cache, key) ==
    [cache EXCEPT ![key].query._cacheHits = @ + 1]

\* the cached coordinate handed on with the address it already carries
setAddressSkipped(cache, key, text) == cache

\* coordinate.address = text, on the coordinate object held by cache[key]
setAddress(cache, key, text) ==
    [cache EXCEPT ![key].coordinate.address = text]

\* evictions with the loop never run: nothing is ever deleted
evictionsNever(cache) == { {} }

\* evictions with the loop stopping at MaxCacheSize + MaxCacheSizeOverflow
evictionsToOverflow(cache) ==
    LET keys      == DOMAIN cache
        cacheSize == Cardinality(keys)
        n         == cacheSize - settings.MaxCacheSize
                               - settings.MaxCacheSizeOverflow
        hits(k)   == cache[k].query._cacheHits
    IN  IF cacheSize > settings.MaxCacheSize + settings.MaxCacheSizeOverflow
        THEN { V \in SUBSET keys :
                 /\ Cardinality(V) = (IF n < 0 THEN 0 ELSE n)
                 /\ \A v \in V : \A r \in keys \ V : hits(v) <= hits(r) }
        ELSE { {} }

\* evictions with the comparator reversed: the most used keys go first
evictionsDescending(cache) ==
    LET keys      == DOMAIN cache
        cacheSize == Cardinality(keys)
        n         == cacheSize - settings.MaxCacheSize
        hits(k)   == cache[k].query._cacheHits
    IN  IF cacheSize > settings.MaxCacheSize + settings.MaxCacheSizeOverflow
        THEN { V \in SUBSET keys :
                 /\ Cardinality(V) = (IF n < 0 THEN 0 ELSE n)
                 /\ \A v \in V : \A r \in keys \ V : hits(v) >= hits(r) }
        ELSE { {} }

\* The sets of keys that the sort-and-delete loop of cacheQuery can remove
\* from a cache: none unless the size exceeds MaxCacheSize +
\* MaxCacheSizeOverflow; otherwise the first (size - MaxCacheSize) keys in
\* ascending order of cache hits.  The comparator returns 0 on equal
\* counts, so among ties the order is the sort implementation's choice.
evictions(cache) ==
    LET keys      == DOMAIN cache
        cacheSize == Cardinality(keys)
        n         == cacheSize - settings.MaxCacheSize
        hits(k)   == cache[k].query._cacheHits
    IN  IF cacheSize > settings.MaxCacheSize + settings.MaxCacheSizeOverflow
        THEN { V \in SUBSET keys :
                 /\ Cardinality(V) = (IF n < 0 THEN 0 ELSE n)
                 /\ \A v \in V : \A r \in keys \ V : hits(v) <= hits(r) }
        ELSE { {} }

\* the hit counts (getCacheHits) of the entries under the keys V
hitCounts(cache, V) == [k \in V |-> cache[k].query._cacheHits]

\* cacheQuery(query, coordinate), given the keys V its loop deletes
cacheQuery(cache, query, coordinate, V) ==
    LET kept == DOMAIN cache \ V
    IN  [k \in kept \cup {query.key} |->
            IF k = query.key
            THEN [query |-> query, coordinate |-> coordinate]
            ELSE cache[k]]

\* ------------------------------------------------------------ dispatcher

\* The part of the state that releaseQuota and makeRequest read and write
DispatchState ==
    [geocodeCache   |-> geocodeCache,
     geocodeQueue   |-> geocodeQueue,
     activeRequests |-> activeRequests,
     timers         |-> timers,
     inflight       |-> inflight,
     calls          |-> calls,
     dispatched     |-> dispatched,
     fetched        |-> fetched]

\* item.then(v): the completion of request id receives v
invoke(cs, id, v) == [cs EXCEPT ![id] = Append(@, v)]

\* makeRequest(item): served from the cache if the key got cached while the
\* item waited (the release is scheduled by an untracked setTimeout),
\* otherwise fetch() is issued
\* makeRequest without the second look at the cache
makeRequestAlwaysFetch(st, item) ==
    [st EXCEPT !.dispatched = Append(@, item.id),
               !.inflight = @ \cup {item},
               !.fetched = @ \cup {item.id}]

\* makeRequest without the `return` that ends its cache-hit branch
makeRequestFallingThrough(st, item) ==
    LET key == item.query.key
        st1 == [st EXCEPT !.dispatched = Append(@, item.id),
                          !.inflight = @ \cup {item},
                          !.fetched = @ \cup {item.id}]
    IN  IF key \in DOMAIN st.geocodeCache
        THEN LET c1 == incrementCacheHit(st.geocodeCache, key)
                 c2 == setAddress(c1, key, item.query.query)
             IN  [st1 EXCEPT !.geocodeCache = c2,
                             !.timers = @ \cup {item.id},
                             !.calls = invoke(@, item.id, c2[key].coordinate)]
        ELSE st1

makeRequest(st, item) ==
    LET key == item.query.key
        st1 == [st EXCEPT !.dispatched = Append(@, item.id)]
    IN  IF key \in DOMAIN st.geocodeCache
        THEN LET c1 == incrementCacheHit(st.geocodeCache, key)
                 c2 == setAddress(c1, key, item.query.query)
             IN  [st1 EXCEPT !.geocodeCache = c2,
                             !.timers = @ \cup {item.id},
                             !.calls = invoke(@, item.id, c2[key].coordinate)]
        ELSE [st1 EXCEPT !.inflight = @ \cup {item},
                         !.fetched = @ \cup {item.id}]

\* releaseQuotaLoop taking the newest item (pop) instead of the oldest (shift)
RECURSIVE releaseQuotaLoopNewestFirst(_)
releaseQuotaLoopNewestFirst(st) ==
    IF st.activeRequests < settings.MaxAzureRequest /\ st.geocodeQueue # <<>>
    THEN releaseQuotaLoopNewestFirst(
            makeRequest([st EXCEPT !.activeRequests = @ + 1,
                                   !.geocodeQueue =
                                       SubSeq(@, 1, Len(@) - 1)],
                        st.geocodeQueue[Len(st.geocodeQueue)]))
    ELSE st

\* releaseQuotaLoop with the loop test written <= instead of <
RECURSIVE releaseQuotaLoopInclusive(_)
releaseQuotaLoopInclusive(st) ==
    IF st.activeRequests <= settings.MaxAzureRequest /\ st.geocodeQueue # <<>>
    THEN releaseQuotaLoopInclusive(
            makeRequest([st EXCEPT !.activeRequests = @ + 1,
                                   !.geocodeQueue = Tail(@)],
                        Head(st.geocodeQueue)))
    ELSE st

\* the while loop of releaseQuota
RECURSIVE releaseQuotaLoop(_)
releaseQuotaLoop(st) ==
    IF st.activeRequests < settings.MaxAzureRequest /\ st.geocodeQueue # <<>>
    THEN releaseQuotaLoop(
            makeRequest([st EXCEPT !.activeRequests = @ + 1,
                                   !.geocodeQueue = Tail(@)],
                        Head(st.geocodeQueue)))
    ELSE st

\* releaseQuota(1) giving the slot back without looking at the queue
releaseQuotaWithoutDispatch(st, decrement) ==
    IF decrement = 0
    THEN releaseQuotaLoop(st)
    ELSE [st EXCEPT !.activeRequests = @ - decrement]

\* releaseQuota that ignores its argument: the slot is never given back
releaseQuotaNoDecrement(st, decrement) ==
    releaseQuotaLoop(st)

\* releaseQuota(decrement)
releaseQuota(st, decrement) ==
    releaseQuotaLoop([st EXCEPT !.activeRequests = @ - decrement])

\* writes a dispatch state back to the variables
Commit(st) ==
    /\ geocodeCache' = st.geocodeCache
    /\ geocodeQueue' = st.geocodeQueue
    /\ activeRequests' = st.activeRequests
    /\ timers' = st.timers
    /\ inflight' = st.inflight
    /\ calls' = st.calls
    /\ dispatched' = st.dispatched
    /\ fetched' = st.fetched

\* ---------------------------------------------------------------- facade

\* the assignment loc.address = addr left out
rewriteAddressSkipped(loc, addr) == loc

\* loc.address = addr
rewriteAddress(loc, addr) == [loc EXCEPT !.address = addr]

\* `if (loc)` on loc = _injected[addr]: the key is present with a truthy value
injectedHit(addr) == addr \in DOMAIN _injected /\ Truthy(_injected[addr])

\* `addr in _initCache`
initCacheHit(addr) == addr \in DOMAIN _initCache

\* geocodeCore remembering failures: a key whose earlier request failed is
\* answered with undefined at once
geocodeCoreNegativeCache(st, geocodeQuery, id) ==
    IF geocodeQuery.key \in DOMAIN st.geocodeCache
    THEN LET c1 == incrementCacheHit(st.geocodeCache, geocodeQuery.key)
             c2 == setAddress(c1, geocodeQuery.key, geocodeQuery.query)
         IN  [st EXCEPT !.geocodeCache = c2,
                        !.calls = invoke(@, id, c2[geocodeQuery.key].coordinate)]
    ELSE IF \E i \in DOMAIN requests :
               /\ toLowerCase(requests[i].addr) = geocodeQuery.key
               /\ calls[i] = << Undefined >>
         THEN [st EXCEPT !.calls = invoke(@, id, Undefined)]
         ELSE releaseQuota(
                [st EXCEPT !.geocodeQueue =
                              Append(@, [id |-> id, query |-> geocodeQuery])],
                0)

\* geocodeCore pushing the item without the call of releaseQuota()
geocodeCorePushOnly(st, geocodeQuery, id) ==
    IF geocodeQuery.key \in DOMAIN st.geocodeCache
    THEN LET c1 == incrementCacheHit(st.geocodeCache, geocodeQuery.key)
             c2 == setAddress(c1, geocodeQuery.key, geocodeQuery.query)
         IN  [st EXCEPT !.geocodeCache = c2,
                        !.calls = invoke(@, id, c2[geocodeQuery.key].coordinate)]
    ELSE [st EXCEPT !.geocodeQueue =
                       Append(@, [id |-> id, query |-> geocodeQuery])]

\* geocodeCore without the findInCache test: every request is queued
geocodeCoreAlwaysQueue(st, geocodeQuery, id) ==
    releaseQuota(
        [st EXCEPT !.geocodeQueue =
                      Append(@, [id |-> id, query |-> geocodeQuery])],
        0)

\* geocodeCore(geocodeQuery, then) for the request id
geocodeCore(st, geocodeQuery, id) ==
    IF geocodeQuery.key \in DOMAIN st.geocodeCache
    THEN LET c1 == incrementCacheHit(st.geocodeCache, geocodeQuery.key)
             c2 == setAddress(c1, geocodeQuery.key, geocodeQuery.query)
         IN  [st EXCEPT !.geocodeCache = c2,
                        !.calls = invoke(@, id, c2[geocodeQuery.key].coordinate)]
    ELSE releaseQuota(
            [st EXCEPT !.geocodeQueue =
                          Append(@, [id |-> id, query |-> geocodeQuery])],
            0)

\* the branch query(addr, then) takes
via(addr) ==
    IF injectedHit(addr) THEN "injected"
    ELSE IF initCacheHit(addr) THEN "initCache"
    ELSE IF toLowerCase(addr) \in DOMAIN geocodeCache THEN "geocodeCache"
    ELSE "queue"

\* query(addr, then)
QueryThen(addr) ==
    /\ Len(requests) < MaxRequests
    /\ LET id == Len(requests) + 1
           cs == Append(calls, <<>>)
       IN  /\ requests' = Append(requests,
                  [addr |-> addr, via |-> via(addr), epoch |-> resets])
           /\ IF injectedHit(addr)
              THEN LET loc == rewriteAddress(_injected[addr], addr)
                   IN  /\ _injected' = [_injected EXCEPT ![addr] = loc]
                       /\ calls' = invoke(cs, id, loc)
                       /\ UNCHANGED <<_initCache, geocodeCache, geocodeQueue,
                                      activeRequests, timers, inflight,
                                      dispatched, fetched>>
              ELSE IF initCacheHit(addr)
              THEN LET loc == rewriteAddress(_initCache[addr], addr)
                   IN  /\ _initCache' = [_initCache EXCEPT ![addr] = loc]
                       /\ calls' = invoke(cs, id, loc)
                       /\ UNCHANGED <<_injected, geocodeCache, geocodeQueue,
                                      activeRequests, timers, inflight,
                                      dispatched, fetched>>
              ELSE /\ Commit(geocodeCore([DispatchState EXCEPT !.calls = cs],
                                         GeocodeQuery(addr), id))
                   /\ UNCHANGED <<_injected, _initCache>>
    /\ UNCHANGED <<settings, dequeueTimeoutId, resets, dropped, evicted>>

\* query(addr) consulting the snapshot before the overrides
queryResultSnapshotFirst(addr) ==
    IF addr \in DOMAIN _initCache /\ Truthy(_initCache[addr]) THEN _initCache[addr]
    ELSE IF addr \in DOMAIN _injected /\ Truthy(_injected[addr]) THEN _injected[addr]
    ELSE IF toLowerCase(addr) \in DOMAIN geocodeCache
         THEN geocodeCache[toLowerCase(addr)].coordinate
    ELSE Undefined

\* the value query(addr) returns (null is Undefined)
queryResult(addr) ==
    IF addr \in DOMAIN _injected /\ Truthy(_injected[addr]) THEN _injected[addr]
    ELSE IF addr \in DOMAIN _initCache /\ Truthy(_initCache[addr]) THEN _initCache[addr]
    ELSE IF toLowerCase(addr) \in DOMAIN geocodeCache
         THEN geocodeCache[toLowerCase(addr)].coordinate
    ELSE Undefined

\* query(addr) counting a cache hit before it looks at the tables
QueryCountingFirst(addr) ==
    /\ IF toLowerCase(addr) \in DOMAIN geocodeCache
       THEN /\ geocodeCache[toLowerCase(addr)].query._cacheHits < MaxHits
            /\ geocodeCache' = incrementCacheHit(geocodeCache, toLowerCase(addr))
       ELSE UNCHANGED geocodeCache
    /\ UNCHANGED <<settings, _injected, _initCache, geocodeQueue,
                   activeRequests, dequeueTimeoutId, timers, inflight,
                   requests, calls, dispatched, fetched, resets, dropped, evicted>>

\* query(addr) without a callback; latitude(addr) and longitude(addr) are
\* this call followed by a field read
Query(addr) ==
    /\ IF /\ ~(addr \in DOMAIN _injected /\ Truthy(_injected[addr]))
          /\ ~(addr \in DOMAIN _initCache /\ Truthy(_initCache[addr]))
          /\ toLowerCase(addr) \in DOMAIN geocodeCache
       THEN /\ geocodeCache[toLowerCase(addr)].query._cacheHits < MaxHits
            /\ geocodeCache' = incrementCacheHit(geocodeCache, toLowerCase(addr))
       ELSE UNCHANGED geocodeCache
    /\ UNCHANGED <<settings, _injected, _initCache, geocodeQueue,
                   activeRequests, dequeueTimeoutId, timers, inflight,
                   requests, calls, dispatched, fetched, resets, dropped, evicted>>

\* ------------------------------------------------- event-loop callbacks

\* completeRequest storing an entry for the key on failure too
completeRequestCachingFailure(st, item, error, coordinate, V) ==
    LET st1   == [st EXCEPT !.timers = @ \cup {item.id}]
        coord == [coordinate EXCEPT !.address = item.query.query]
    IN  [st1 EXCEPT
           !.geocodeCache = cacheQuery(@, item.query, coord, V),
           !.calls = invoke(@, item.id, IF error THEN Undefined ELSE coord)]

\* completeRequest setting the timer on success only
completeRequestLeakingOnError(st, item, error, coordinate, V) ==
    IF error
    THEN [st EXCEPT !.calls = invoke(@, item.id, Undefined)]
    ELSE LET coord == [coordinate EXCEPT !.address = item.query.query]
         IN  [st EXCEPT
                !.timers = @ \cup {item.id},
                !.geocodeCache = cacheQuery(@, item.query, coord, V),
                !.calls = invoke(@, item.id, coord)]

\* completeRequest calling releaseQuota(1) itself instead of through a timer
completeRequestReleasingNow(st, item, error, coordinate, V) ==
    LET coord == [coordinate EXCEPT !.address = item.query.query]
        st1   == IF error
                 THEN [st EXCEPT !.calls = invoke(@, item.id, Undefined)]
                 ELSE [st EXCEPT
                         !.geocodeCache = cacheQuery(@, item.query, coord, V),
                         !.calls = invoke(@, item.id, coord)]
    IN  releaseQuota(st1, 1)

\* completeRequest(item, error, coordinate); V is what cacheQuery evicts
completeRequest(st, item, error, coordinate, V) ==
    LET st1 == [st EXCEPT !.timers = @ \cup {item.id}]
    IN  IF error
        THEN [st1 EXCEPT !.calls = invoke(@, item.id, Undefined)]
        ELSE LET coord == [coordinate EXCEPT !.address = item.query.query]
             IN  [st1 EXCEPT
                    !.geocodeCache = cacheQuery(@, item.query, coord, V),
                    !.calls = invoke(@, item.id, coord)]

\* fetch() settles with a non-empty result list: the second .then callback
\* of makeRequest builds coord and calls completeRequest(item, null, coord)
FetchSuccess(item) ==
    /\ item \in inflight
    /\ \E V \in evictions(geocodeCache) :
          /\ Commit(completeRequest(
                    [DispatchState EXCEPT !.inflight = @ \ {item}], item, FALSE,
                    Location("provider", item.id, item.query.query), V))
          /\ evicted' = hitCounts(geocodeCache, V)
    /\ dequeueTimeoutId' = item.id
    /\ UNCHANGED <<settings, _injected, _initCache, requests, resets,
                   dropped>>

\* fetch() rejects, the status is not ok, the result list is empty or
\* malformed, or the second .then callback throws before it reaches
\* completeRequest (getBestResultIndexAzure is defined nowhere in this
\* file): completeRequest(item, err, null)
FetchFailure(item) ==
    /\ item \in inflight
    /\ Commit(completeRequest(
                 [DispatchState EXCEPT !.inflight = @ \ {item}], item, TRUE,
                 Undefined, {}))
    /\ dequeueTimeoutId' = item.id
    /\ UNCHANGED <<settings, _injected, _initCache, requests, resets,
                   dropped, evicted>>

\* a pending timer fires: () => releaseQuota(1)
ReleaseTimer(t) ==
    /\ t \in timers
    /\ Commit(releaseQuota([DispatchState EXCEPT !.timers = @ \ {t}], 1))
    /\ UNCHANGED <<settings, _injected, _initCache, dequeueTimeoutId,
                   requests, resets, dropped, evicted>>

\* reset() without `geocodeQueue = []`
resetKeepingQueue ==
    /\ resets < MaxResets
    /\ geocodeCache' = EmptyMap
    /\ activeRequests' = 0
    /\ timers' = timers \ {dequeueTimeoutId}
    /\ dequeueTimeoutId' = 0
    /\ resets' = resets + 1
    /\ dropped' = dropped \cup { geocodeQueue[i].id : i \in DOMAIN geocodeQueue }
    /\ UNCHANGED <<settings, _injected, _initCache, geocodeQueue, inflight,
                   requests, calls, dispatched, fetched, evicted>>

\* reset(): clearTimeout cancels only the timer dequeueTimeoutId names
reset ==
    /\ resets < MaxResets
    /\ geocodeCache' = EmptyMap
    /\ geocodeQueue' = << >>
    /\ activeRequests' = 0
    /\ timers' = timers \ {dequeueTimeoutId}
    /\ dequeueTimeoutId' = 0
    /\ resets' = resets + 1
    /\ dropped' = dropped \cup { geocodeQueue[i].id : i \in DOMAIN geocodeQueue }
    /\ UNCHANGED <<settings, _injected, _initCache, inflight, requests,
                   calls, dispatched, fetched, evicted>>

\* ------------------------------------------------------- override tables

\* keys and payloads of the tables callers pass to inject and initCache
TableKeys == {"Ab", "cd"}
Payloads == {1, 2}

\* the StringMap<ILocation> arguments of inject: every value is a location
\* object of its own, or null
InjectArgs ==
    UNION { [K -> {Undefined} \cup { Location("injected", n, "") : n \in Payloads }] :
            K \in SUBSET TableKeys }

\* the arguments of initCache
InitCacheArgs ==
    UNION { [K -> { Location("initCache", 1, "") }] : K \in SUBSET {"Ab"} }

\* the for loop of inject storing every value, null included
mergeStoringFalsy(table, locs) ==
    [k \in DOMAIN table \cup DOMAIN locs |->
        IF k \in DOMAIN locs THEN locs[k] ELSE table[k]]

\* the for loop of inject: a truthy value is stored, a falsy one deletes the key
merge(table, locs) ==
    LET deleted == { k \in DOMAIN locs : ~Truthy(locs[k]) }
    IN  [k \in (DOMAIN table \cup DOMAIN locs) \ deleted |->
            IF k \in DOMAIN locs THEN locs[k] ELSE table[k]]

\* inject(locs, reset)
inject(locs, reset_) ==
    /\ _injected' = IF reset_ THEN locs ELSE merge(_injected, locs)
    /\ UNCHANGED <<settings, _initCache, geocodeCache, geocodeQueue,
                   activeRequests, dequeueTimeoutId, timers, inflight,
                   requests, calls, dispatched, fetched, resets, dropped, evicted>>

\* remove(where); where is given by the payloads it accepts; a null value
\* does not satisfy it
remove(where) ==
    /\ _injected' = [k \in { k \in DOMAIN _injected :
                              ~(Truthy(_injected[k]) /\ _injected[k].n \in where) }
                       |-> _injected[k]]
    /\ UNCHANGED <<settings, _initCache, geocodeCache, geocodeQueue,
                   activeRequests, dequeueTimeoutId, timers, inflight,
                   requests, calls, dispatched, fetched, resets, dropped, evicted>>

\* initCache(locs): _initCache = copy(locs)
initCache(locs) ==
    /\ _initCache' = locs
    /\ UNCHANGED <<settings, _injected, geocodeCache, geocodeQueue,
                   activeRequests, dequeueTimeoutId, timers, inflight,
                   requests, calls, dispatched, fetched, resets, dropped, evicted>>

\* ------------------------------------------------------- specification

\* the configurations of `settings`
Settings ==
    [MaxAzureRequest : 1..MaxConcurrentBound,
     MaxCacheSize : 1..MaxCacheBound,
     MaxCacheSizeOverflow : 0..MaxOverflowBound]

\* module load: the variable initialisers, then reset()
Init ==
    /\ settings \in Settings
    /\ _injected = EmptyMap
    /\ _initCache = EmptyMap
    /\ geocodeCache = EmptyMap
    /\ geocodeQueue = << >>
    /\ activeRequests = 0
    /\ dequeueTimeoutId = 0
    /\ timers = {}
    /\ inflight = {}
    /\ requests = << >>
    /\ calls = << >>
    /\ dispatched = << >>
    /\ fetched = {}
    /\ resets = 0
    /\ dropped = {}
    /\ evicted = EmptyMap

\* the dispatcher, the adaptive cache and the lookups, with no override
\* and no snapshot loaded
Next ==
    \/ \E addr \in Texts : QueryThen(addr)
    \/ \E addr \in Texts : Query(addr)
    \/ \E item \in inflight : FetchSuccess(item)
    \/ \E item \in inflight : FetchFailure(item)
    \/ \E t \in timers : ReleaseTimer(t)
    \/ reset

Spec == Init /\ [][Next]_vars

\* the service when reset() is never called
NextNoReset ==
    \/ \E addr \in Texts : QueryThen(addr)
    \/ \E addr \in Texts : Query(addr)
    \/ \E item \in inflight : FetchSuccess(item)
    \/ \E item \in inflight : FetchFailure(item)
    \/ \E t \in timers : ReleaseTimer(t)

\* the items makeRequest can start a fetch for
Items == { [query |-> GeocodeQuery(addr), id |-> id] :
             addr \in Texts, id \in 1..MaxRequests }

\* every fetch that was started settles, with a result or with an error,
\* and every timer that was set fires
Fairness ==
    /\ \A item \in Items : WF_vars(FetchSuccess(item) \/ FetchFailure(item))
    /\ \A t \in 1..MaxRequests : WF_vars(ReleaseTimer(t))

SpecLive == Init /\ [][NextNoReset]_vars /\ Fairness

\* the whole service, override and snapshot tables included, for
\* behaviours of at most MaxTableRequests query(addr, then) calls
NextTables ==
    \/ \E addr \in Texts : Len(requests) < MaxTableRequests /\ QueryThen(addr)
    \/ \E addr \in Texts : Query(addr)
    \/ \E item \in inflight : FetchSuccess(item)
    \/ \E item \in inflight : FetchFailure(item)
    \/ \E t \in timers : ReleaseTimer(t)
    \/ reset
    \/ \E locs \in InjectArgs, r \in BOOLEAN : inject(locs, r)
    \/ \E where \in SUBSET Payloads : remove(where)
    \/ \E locs \in InitCacheArgs : initCache(locs)

\* the tables do not read `settings`: one configuration, in which a second
\* request has to wait for the first
InitTables ==
    /\ Init
    /\ settings.MaxAzureRequest = 1
    /\ settings.MaxCacheSize = MaxCacheBound
    /\ settings.MaxCacheSizeOverflow = 0

SpecTables == InitTables /\ [][NextTables]_vars

\* inject and remove as functions of the override table: the arguments of
\* inject are the maps of up to MaxInjectKeys of the texts
OverrideArgs ==
    UNION { [K -> {Undefined} \cup { Location("injected", n, "") : n \in Payloads }] :
            K \in { K \in SUBSET Texts : Cardinality(K) <= MaxInjectKeys } }

NextOverrides ==
    \/ \E locs \in OverrideArgs, r \in BOOLEAN : inject(locs, r)
    \/ \E where \in SUBSET Payloads : remove(where)

SpecOverrides == InitTables /\ [][NextOverrides]_vars

\* cacheQuery as a function of the cache it is called on: the caches of up
\* to MaxCacheSize + MaxCacheSizeOverflow + 1 entries over CacheTexts, with
\* hit counts drawn from HitCounts, and every insertion into them
CacheTexts == {"k1", "k2", "k3", "k4", "k5", "k6"}
HitCounts == {0, 1, 3, 5, 8}

\* an entry stored by cacheQuery for the address k and looked up h times
CacheEntry(k, h) ==
    [query |-> [GeocodeQuery(k) EXCEPT !._cacheHits = h],
     coordinate |-> Location("provider", 0, k)]

InitCacheQuery ==
    /\ settings \in [MaxAzureRequest : {1},
                     MaxCacheSize : 1..MaxEvictCacheSize,
                     MaxCacheSizeOverflow : 0..MaxOverflowBound]
    /\ \E K \in SUBSET CacheTexts :
          /\ Cardinality(K) <= settings.MaxCacheSize
                                  + settings.MaxCacheSizeOverflow + 1
          /\ \E h \in [K -> HitCounts] :
                geocodeCache = [k \in K |-> CacheEntry(k, h[k])]
    /\ _injected = EmptyMap
    /\ _initCache = EmptyMap
    /\ geocodeQueue = << >>
    /\ activeRequests = 0
    /\ dequeueTimeoutId = 0
    /\ timers = {}
    /\ inflight = {}
    /\ requests = << >>
    /\ calls = << >>
    /\ dispatched = << >>
    /\ fetched = {}
    /\ resets = 0
    /\ dropped = {}
    /\ evicted = EmptyMap

\* cacheQuery(new GeocodeQuery(query), coordinate) on the cache as it is
CacheQueryStep(query) ==
    /\ \E V \in evictions(geocodeCache) :
          /\ geocodeCache' = cacheQuery(geocodeCache, GeocodeQuery(query),
                                        Location("provider", 0, query), V)
          /\ evicted' = hitCounts(geocodeCache, V)
    /\ UNCHANGED <<settings, _injected, _initCache, geocodeQueue,
                   activeRequests, dequeueTimeoutId, timers, inflight,
                   requests, calls, dispatched, fetched, resets, dropped>>

NextCacheQuery == \E query \in CacheTexts : CacheQueryStep(query)

SpecCacheQuery == InitCacheQuery /\ [][NextCacheQuery]_vars

\* ------------------------------------------------------------------ claims

\* C1: in every reachable state activeRequests is at most
\* settings.MaxAzureRequest.
C1_ActiveAtMostMax == activeRequests <= settings.MaxAzureRequest

\* C1 witness: every slot is taken and an item waits in the queue
C1_AtCapacityWithBacklog ==
    /\ activeRequests = settings.MaxAzureRequest
    /\ geocodeQueue # << >>
    /\ inflight # {}

\* C2: the number of provider calls issued and not yet completed never
\* exceeds settings.MaxAzureRequest.
C2_InFlightAtMostMax == Cardinality(inflight) <= settings.MaxAzureRequest

\* C3: in every reachable state activeRequests is at least 0.
C3_ActiveNonNegative == activeRequests >= 0

\* C4 as claimed: the cache never holds more than MaxCacheSize + 1 entries,
\* whatever MaxCacheSize and MaxCacheSizeOverflow are.
C4_SizeAtMostMaxPlusOne == getCacheSize <= settings.MaxCacheSize + 1

\* C4 as amended: after any sequence of insertions the cache holds at most
\* MaxCacheSize + MaxCacheSizeOverflow + 1 entries, for every configuration
\* (which is MaxCacheSize + 1 when MaxCacheSizeOverflow is 0).
C4_SizeAtMostMaxPlusOverflowPlusOne ==
    getCacheSize <= settings.MaxCacheSize + settings.MaxCacheSizeOverflow + 1

\* C4 witness: insertions have filled the cache up to the amended bound,
\* above MaxCacheSize + 1
C4_CacheFullBeyondMax ==
    /\ getCacheSize = settings.MaxCacheSize + settings.MaxCacheSizeOverflow + 1
    /\ getCacheSize > settings.MaxCacheSize + 1

\* requests that query(addr, then) appended to the queue
Queued == { i \in DOMAIN requests : requests[i].via = "queue" }

\* position of request id in the order makeRequest took the items (0: not yet)
dispatchIndex(id) ==
    IF \E n \in DOMAIN dispatched : dispatched[n] = id
    THEN CHOOSE n \in DOMAIN dispatched : dispatched[n] = id
    ELSE 0

\* C5: of two items appended to the queue with no reset() in between, the one
\* appended later is never handed to makeRequest unless the earlier one was
\* handed to it before.
C5_FifoDispatch ==
    \A i \in Queued : \A j \in Queued :
        (i < j /\ requests[i].epoch = requests[j].epoch /\ dispatchIndex(j) # 0)
            => (dispatchIndex(i) # 0 /\ dispatchIndex(i) < dispatchIndex(j))

\* C5 witness: two items waited in the queue together behind a pending
\* call and both have been dispatched
C5_TwoWaitersDispatched ==
    /\ settings.MaxAzureRequest = 1
    /\ resets = 0
    /\ Len(requests) = 3
    /\ Queued = {1, 2, 3}
    /\ Len(dispatched) = 3

Min(a, b) == IF a < b THEN a ELSE b

\* no completion has been delivered and reset() has not been called: all
\* that happened since module load are submissions and lookups
NothingCompleted ==
    /\ resets = 0
    /\ \A i \in DOMAIN calls : calls[i] = << >>

\* C6, first part: N addresses submitted to the idle service with no
\* completion in between leave min(N, MaxAzureRequest) items dispatched (one
\* fetch each) and the other N - min(N, MaxAzureRequest) in the queue, in
\* submission order.
C6_ImmediateDispatch ==
    NothingCompleted =>
        LET N == Len(requests)
            d == Min(N, settings.MaxAzureRequest)
        IN  /\ dispatched = [k \in 1..d |-> k]
            /\ Cardinality(inflight) = d
            /\ activeRequests = d
            /\ Len(geocodeQueue) = N - d
            /\ \A k \in DOMAIN geocodeQueue : geocodeQueue[k].id = d + k

\* C6, second part: a release(1) that finds the queue non-empty dispatches
\* exactly one item, the head of the queue.
C6_ReleaseDispatchesHead ==
    ((\E t \in timers : ReleaseTimer(t)) /\ geocodeQueue # << >>)
        => /\ dispatched' = Append(dispatched, Head(geocodeQueue).id)
           /\ geocodeQueue' = Tail(geocodeQueue)

\* C6: both parts, in every behaviour
C6_ScenarioA == [] C6_ImmediateDispatch /\ [][C6_ReleaseDispatchesHead]_vars

\* C6 witness: more submissions than slots were made before anything
\* completed, and later a release has dispatched the item that waited
C6_BacklogServed ==
    /\ resets = 0
    /\ Len(requests) = 3
    /\ Queued = {1, 2, 3}
    /\ settings.MaxAzureRequest = 2
    /\ fetched = {1, 2, 3}
    /\ Cardinality(inflight) = 2
    /\ geocodeQueue = << >>

\* C7, the first call: a successful completion stores the entry under the
\* item's key and hands the coordinate to the completion.
C7_SuccessIsCached ==
    \A item \in inflight :
        FetchSuccess(item) =>
            /\ item.query.key \in DOMAIN geocodeCache'
            /\ calls'[item.id] = Append(calls[item.id],
                                        geocodeCache'[item.query.key].coordinate)
            /\ Truthy(geocodeCache'[item.query.key].coordinate)

\* C7, the second call: query(a, then) for an address in neither table
\* whose key is cached issues no provider call and queues nothing, its
\* completion receives the cached coordinate with address a within the call,
\* and the entry's hit count goes up by one; if it is the second request
\* for that key, exactly one provider call was issued for the key.
C7_SecondCallServedFromCache ==
    LET id  == Len(requests) + 1
        a   == requests'[id].addr
        key == toLowerCase(a)
    IN  (/\ Len(requests') = id
         /\ ~injectedHit(a)
         /\ ~initCacheHit(a)
         /\ key \in DOMAIN geocodeCache)
        => /\ fetched' = fetched
           /\ geocodeQueue' = geocodeQueue
           /\ inflight' = inflight
           /\ dispatched' = dispatched
           /\ activeRequests' = activeRequests
           /\ calls'[id] = << rewriteAddress(geocodeCache[key].coordinate, a) >>
           /\ key \in DOMAIN geocodeCache'
           /\ geocodeCache'[key].query._cacheHits
                  = geocodeCache[key].query._cacheHits + 1
           /\ (Cardinality({ i \in DOMAIN requests :
                               toLowerCase(requests[i].addr) = key }) = 1
                 => Cardinality({ i \in fetched' :
                               toLowerCase(requests'[i].addr) = key }) = 1)

\* C7: both steps, in every behaviour
C7_IdempotentHit == [][C7_SuccessIsCached /\ C7_SecondCallServedFromCache]_vars

\* C7 witness: the same address was resolved twice in sequence, the first
\* time by the provider and the second time from the cache
C7_ResolvedTwice ==
    /\ Len(requests) = 2
    /\ requests[1].addr = requests[2].addr
    /\ requests[1].via = "queue"
    /\ requests[2].via = "geocodeCache"
    /\ fetched = {1}
    /\ Len(calls[1]) = 1
    /\ Len(calls[2]) = 1
    /\ geocodeCache[toLowerCase(requests[2].addr)].query._cacheHits = 1

\* the dispatcher and the adaptive cache are left as they were
DispatcherUntouched ==
    UNCHANGED <<geocodeCache, geocodeQueue, activeRequests, timers, inflight,
                dispatched, fetched>>

\* C8 as claimed, lookup: query(a) returns the override's value for every
\* key a of the override table.
C8_LookupAnyKey ==
    \A a \in DOMAIN _injected : queryResult(a) = _injected[a]

\* C8 as claimed, resolve: query(a, then) for a key a of the override table
\* hands the override's value to the completion and touches neither the
\* queue nor the provider.
C8_ResolveAnyKey ==
    LET id == Len(requests) + 1
        a  == requests'[id].addr
    IN  (Len(requests') = id /\ a \in DOMAIN _injected)
        => /\ calls'[id] = << rewriteAddress(_injected[a], a) >>
           /\ DispatcherUntouched

\* C8 as claimed: override precedence for every key of the override table.
C8_OverridePrecedenceAnyKey == [] C8_LookupAnyKey /\ [][C8_ResolveAnyKey]_vars

\* C8 as amended, lookup: for every address the override table maps to a
\* location (not to null), query(a) returns that location, whatever the
\* snapshot and the adaptive cache hold for a or for its lowercase key.
C8_LookupOverride ==
    \A a \in DOMAIN _injected :
        Truthy(_injected[a]) => queryResult(a) = _injected[a]

\* C8 as amended, resolve: for such an address query(a, then) hands that
\* location (address set to a) to the completion, issues no provider call
\* and queues nothing.
C8_ResolveOverride ==
    LET id == Len(requests) + 1
        a  == requests'[id].addr
    IN  (Len(requests') = id /\ a \in DOMAIN _injected /\ Truthy(_injected[a]))
        => /\ calls'[id] = << rewriteAddress(_injected[a], a) >>
           /\ calls'[id][1].origin = "injected"
           /\ calls'[id][1].n = _injected[a].n
           /\ _injected'[a] = calls'[id][1]
           /\ DispatcherUntouched

\* C8 as amended: override precedence for every address the override table
\* maps to a location.
C8_OverridePrecedence == [] C8_LookupOverride /\ [][C8_ResolveOverride]_vars

\* C8 witness: an address is overridden while the snapshot holds it and the
\* adaptive cache holds its key, and it has been resolved from the override
C8_OverrideShadowsBoth ==
    /\ "Ab" \in DOMAIN _injected /\ Truthy(_injected["Ab"])
    /\ "Ab" \in DOMAIN _initCache
    /\ "ab" \in DOMAIN geocodeCache
    /\ Len(requests) = 2
    /\ requests[2] = [addr |-> "Ab", via |-> "injected", epoch |-> 0]
    /\ calls[2] = << _injected["Ab"] >>

\* C9: a query(a, then) that hits the override table or the snapshot has
\* had its completion invoked exactly once by the time the call returns
\* (and never again), with a location whose address is a.
C9_TableHitSynchronous ==
    \A i \in DOMAIN requests :
        requests[i].via \in {"injected", "initCache"}
            => /\ Len(calls[i]) = 1
               /\ Truthy(calls[i][1])
               /\ calls[i][1].address = requests[i].addr

\* C9 witness: one request was answered by the override table and one by
\* the snapshot
C9_BothTablesHit ==
    /\ \E i \in DOMAIN requests : requests[i].via = "injected"
    /\ \E i \in DOMAIN requests : requests[i].via = "initCache"

\* C10, at reset(): the cache is empty and the queue is empty afterwards.
C10_ResetClears == reset => (getCacheSize' = 0 /\ geocodeQueue' = << >>)

\* C10, afterwards: the completion of an item that was in the queue when
\* reset() ran is never invoked.
C10_DroppedNeverCompleted == \A id \in dropped : calls[id] = << >>

\* C10: both, in every behaviour
C10_ScenarioC == [][C10_ResetClears]_vars /\ [] C10_DroppedNeverCompleted

\* C10 witness: reset() dropped a queued item, a later request was
\* dispatched and completed, and every callback has run since
C10_DroppedAndQuiescent ==
    /\ dropped # {}
    /\ inflight = {}
    /\ timers = {}
    /\ \E i \in DOMAIN requests :
          requests[i].epoch = 1 /\ i \in fetched /\ calls[i] # << >>

\* C11: when a dispatched provider call ends in an empty result or a
\* transport error, the item's completion is invoked with an absent
\* location, the adaptive cache is left exactly as it was, and the item is
\* neither queued again nor fetched again.
C11_FailureStep ==
    \A item \in inflight :
        FetchFailure(item) =>
            /\ calls'[item.id] = Append(calls[item.id], Undefined)
            /\ geocodeCache' = geocodeCache
            /\ geocodeQueue' = geocodeQueue
            /\ \A other \in inflight' : other.id # item.id
            /\ fetched' = fetched
            /\ dispatched' = dispatched

\* C11: the failure path, in every behaviour
C11_FailurePath == [][C11_FailureStep]_vars

\* C11 witness: a provider call failed while the cache held an entry
C11_FailedWithCacheFilled ==
    /\ geocodeCache # EmptyMap
    /\ \E i \in DOMAIN calls :
          /\ i \in fetched
          /\ calls[i] = << Undefined >>
          /\ toLowerCase(requests[i].addr) \notin DOMAIN geocodeCache

\* request i was answered by a failed provider call
Failed(i) == i \in fetched /\ calls[i] = << Undefined >>

\* C12: a query(a, then) for an address in no tier whose earlier resolution
\* failed is appended to the queue like any first request: it is handed to
\* the provider in the same call when a slot is free, and waits at the tail
\* of the queue otherwise.
C12_RetryStep ==
    LET id   == Len(requests) + 1
        a    == requests'[id].addr
        item == [id |-> id, query |-> GeocodeQuery(a)]
    IN  (/\ Len(requests') = id
         /\ \E i \in DOMAIN requests : requests[i].addr = a /\ Failed(i)
         /\ ~injectedHit(a)
         /\ ~initCacheHit(a)
         /\ toLowerCase(a) \notin DOMAIN geocodeCache)
        => /\ calls'[id] = << >>
           /\ IF activeRequests < settings.MaxAzureRequest
              THEN /\ id \in fetched'
                   /\ item \in inflight'
                   /\ dispatched' = Append(dispatched, id)
              ELSE geocodeQueue' = Append(geocodeQueue, item)

\* C12: no negative caching, in every behaviour
C12_NoNegativeCaching == [][C12_RetryStep]_vars

\* C12 witness: an address failed, was requested again and fetched again
C12_FailedThenFetchedAgain ==
    \E i \in DOMAIN requests : \E j \in DOMAIN requests :
        /\ i < j
        /\ requests[i].addr = requests[j].addr
        /\ Failed(i)
        /\ j \in fetched
        /\ requests[j].epoch = requests[i].epoch

\* C13 (eviction correctness): an insertion into a cache of s entries with
\* s > MaxCacheSize + MaxCacheSizeOverflow removes exactly s - MaxCacheSize
\* of the existing entries, each of them used at most as often as every
\* existing entry it leaves, then stores the new entry with a hit count of
\* 0 and leaves the other entries as they were.
C13_EvictionStep ==
    LET s       == Cardinality(DOMAIN geocodeCache)
        removed == DOMAIN evicted'
        left    == DOMAIN geocodeCache \ removed
        hits(k) == geocodeCache[k].query._cacheHits
    IN  s > settings.MaxCacheSize + settings.MaxCacheSizeOverflow =>
          /\ removed \subseteq DOMAIN geocodeCache
          /\ Cardinality(removed) = s - settings.MaxCacheSize
          /\ \A v \in removed :
                /\ evicted'[v] = hits(v)
                /\ \A r \in left : hits(v) <= hits(r)
          /\ \E k \in DOMAIN geocodeCache' :
                /\ DOMAIN geocodeCache' = left \cup {k}
                /\ geocodeCache'[k].query._cacheHits = 0
                /\ \A r \in left \ {k} : geocodeCache'[r] = geocodeCache[r]

C13_EvictionCorrectness == [][C13_EvictionStep]_vars

\* the example of hit counts 5, 0, 3, 1, 8 with MaxCacheSize 3: the entries
\* used 0 and 1 times are gone, those used 3, 5 and 8 times stay beside the
\* new one
C13_TwoLeastUsedEvicted ==
    /\ settings.MaxCacheSize = 3
    /\ Cardinality(DOMAIN evicted) = 2
    /\ { evicted[k] : k \in DOMAIN evicted } = {0, 1}
    /\ Cardinality(DOMAIN geocodeCache) = 4
    /\ { geocodeCache[k].query._cacheHits : k \in DOMAIN geocodeCache }
          = {0, 3, 5, 8}
    /\ DOMAIN evicted \cap DOMAIN geocodeCache = {}

\* C14: reset() cancels every pending scheduled release: after a reset()
\* step no timer for releaseQuota(1) is left, whether completeRequest or
\* the cache-hit path of makeRequest set it.
C14_ResetStep == resets' # resets => timers' = {}

C14_ResetCancelsEveryRelease == [][C14_ResetStep]_vars

\* what query(addr) without a callback may change: nothing but the hit
\* count of the cache entry under toLowerCase(addr), by one, and that only
\* when addr has a value in neither _injected nor _initCache
LookupFrame(addr) ==
    LET key == toLowerCase(addr)
    IN  /\ geocodeQueue' = geocodeQueue
        /\ activeRequests' = activeRequests
        /\ inflight' = inflight
        /\ fetched' = fetched
        /\ timers' = timers
        /\ _injected' = _injected
        /\ _initCache' = _initCache
        /\ DOMAIN geocodeCache' = DOMAIN geocodeCache
        /\ \A k \in DOMAIN geocodeCache :
              \/ geocodeCache'[k] = geocodeCache[k]
              \/ /\ k = key
                 /\ geocodeCache'[k] = incrementCacheHit(geocodeCache, k)[k]
                 /\ ~(addr \in DOMAIN _injected /\ Truthy(_injected[addr]))
                 /\ ~(addr \in DOMAIN _initCache /\ Truthy(_initCache[addr]))

\* C15: query(addr) without a callback (latitude and longitude wrap it)
\* starts no request: it leaves the queue, activeRequests, the requests in
\* flight, the timers, both tables and the key set of the cache as they
\* are, and changes at most the hit count of the entry for
\* toLowerCase(addr), only when neither table has a value for addr.
C15_LookupStep == \A addr \in Texts : Query(addr) => LookupFrame(addr)

C15_LookupHasNoNetworkEffect == [][C15_LookupStep]_vars

\* a lookup has counted a hit on an entry while a table holds a value for
\* another spelling of the same key, and nothing but the first fetch ran
C15_LookupCountedHit ==
    /\ "ab" \in DOMAIN geocodeCache
    /\ geocodeCache["ab"].query._cacheHits = 1
    /\ Len(dispatched) = 1
    /\ "Ab" \in DOMAIN _injected \cup DOMAIN _initCache

\* C16: the hit count of the cache entry under a key never goes down from
\* one state to the next while the entry stays, unless the step evicted
\* entries or was a reset(); in particular a successful completion for a
\* key that is already cached does not lower its hit count.
C16_HitStep ==
    \A k \in DOMAIN geocodeCache \cap DOMAIN geocodeCache' :
        (resets' = resets /\ k \notin DOMAIN evicted') =>
            geocodeCache'[k].query._cacheHits >= geocodeCache[k].query._cacheHits

C16_HitCountMonotone == [][C16_HitStep]_vars

\* the requests whose completion the step invokes
CompletedNow ==
    { i \in DOMAIN calls' :
        Len(calls'[i]) > (IF i \in DOMAIN calls THEN Len(calls[i]) ELSE 0) }

\* the requests makeRequest has taken, before and after the step
Dispatched == { dispatched[n] : n \in DOMAIN dispatched }
DispatchedNext == { dispatched'[n] : n \in DOMAIN dispatched' }

\* C17 (deferred release): the step that invokes the completion of a
\* dispatched item leaves the timer for its releaseQuota(1) pending, so the
\* release runs in a later step; when a fetch settles, activeRequests, the
\* queue and the dispatch order are as they were; and activeRequests moves
\* only by one up per item dispatched and one down per timer that fired.
C17_DeferredStep ==
    /\ \A i \in CompletedNow \cap DispatchedNext :
          /\ i \in timers'
          /\ i \notin timers
          /\ i \in Dispatched =>
                /\ activeRequests' = activeRequests
                /\ geocodeQueue' = geocodeQueue
                /\ dispatched' = dispatched
    /\ resets' = resets =>
          activeRequests' - activeRequests
             = (Len(dispatched') - Len(dispatched)) - Cardinality(timers \ timers')

C17_DeferredRelease == [][C17_DeferredStep]_vars

\* a fetch has settled while every slot is taken and an item waits: the
\* slot is still counted and the waiting item is still in the queue
C17_CompletedBeforeRelease ==
    /\ resets = 0
    /\ geocodeQueue # << >>
    /\ activeRequests = settings.MaxAzureRequest
    /\ \E i \in timers : i \in fetched /\ Len(calls[i]) = 1

\* the requests whose items wait in geocodeQueue or have a fetch pending
InQueue == { geocodeQueue[n].id : n \in DOMAIN geocodeQueue }
InFlight == { item.id : item \in inflight }

\* where a request stands: handed back at once by a table or the cache
\* ("direct"), waiting, dispatched with its fetch pending, resolved after
\* dispatch, or dropped from the queue by reset()
Stage(i) ==
    IF requests[i].via # "queue" THEN "direct"
    ELSE IF i \in Dispatched
         THEN (IF calls[i] = << >> THEN "dispatched" ELSE "resolved")
    ELSE IF i \in dropped THEN "dropped" ELSE "queued"

C18_Lifecycle ==
    /\ DOMAIN calls = DOMAIN requests
    /\ \A i \in DOMAIN requests :
          /\ Len(calls[i]) <= 1
          /\ Cardinality({ n \in DOMAIN dispatched : dispatched[n] = i }) <= 1
          /\ Cardinality({ n \in DOMAIN geocodeQueue : geocodeQueue[n].id = i }) <= 1
          /\ Stage(i) = "direct" =>
                Len(calls[i]) = 1 /\ i \notin InQueue \cup InFlight \cup Dispatched
          /\ Stage(i) = "queued" => i \in InQueue /\ calls[i] = << >>
          /\ Stage(i) = "dropped" => i \notin InQueue /\ calls[i] = << >>
          /\ Stage(i) = "dispatched" => i \in InFlight /\ i \notin InQueue
          /\ Stage(i) = "resolved" => i \notin InQueue \cup InFlight

C18_LifecycleStep ==
    /\ \A i \in DOMAIN calls : Len(calls'[i]) >= Len(calls[i])
    /\ \A i \in DOMAIN requests :
          (i \in Dispatched \/ calls[i] # << >>) =>
              /\ i \notin { geocodeQueue'[n].id : n \in DOMAIN geocodeQueue' }
              /\ i \in Dispatched => i \in DispatchedNext

C19_DispatchStep ==
    \A i \in DispatchedNext \ Dispatched :
        LET addr == requests'[i].addr
            key  == toLowerCase(addr)
        IN  key \in DOMAIN geocodeCache =>
              /\ calls'[i] =
                    << [geocodeCache[key].coordinate EXCEPT !.address = addr] >>
              /\ i \notin fetched'
              /\ i \notin { item.id : item \in inflight' }
              /\ i \in timers' /\ i \notin timers

C19_DispatchTimeCacheCheck == [][C19_DispatchStep]_vars

\* an item that waited in the queue was answered from the cache when it was
\* dispatched: it was never fetched and its release is pending
C19_AnsweredAtDispatch ==
    \E i \in Dispatched :
        /\ i \notin fetched
        /\ Len(calls[i]) = 1
        /\ Truthy(calls[i][1])
        /\ i \in timers

\* C20: every location a callback of query(a, then) was invoked with,
\* whether it came from the override table, the snapshot, the cache at
\* submission, the cache at dispatch or the provider, carried a as its
\* address when the callback was invoked.
C20_AddressIsRequestedText ==
    \A i \in DOMAIN calls :
        \A n \in DOMAIN calls[i] :
            Truthy(calls[i][n]) => calls[i][n].address = requests[i].addr

\* the same key was requested under two spellings, the first answered by
\* the provider and the second from the cache, each under its own text
C20_TwoSpellingsAnswered ==
    \E i, j \in DOMAIN requests :
        /\ requests[i].addr = "Ab" /\ requests[j].addr = "ab"
        /\ i \in fetched /\ Len(calls[i]) = 1 /\ Truthy(calls[i][1])
        /\ j \notin fetched /\ Len(calls[j]) = 1 /\ Truthy(calls[j][1])
        /\ requests[j].via \in {"geocodeCache", "queue"}

\* inject(locs, reset): with reset the table is locs itself; without it
\* every key of locs holds its truthy value or is gone, and every other
\* key is as it was
C21_InjectStep ==
    \A locs \in OverrideArgs, r \in BOOLEAN :
        inject(locs, r) =>
            IF r
            THEN _injected' = locs
            ELSE /\ \A k \in DOMAIN locs :
                       IF Truthy(locs[k])
                       THEN k \in DOMAIN _injected' /\ _injected'[k] = locs[k]
                       ELSE k \notin DOMAIN _injected'
                 /\ \A k \in (DOMAIN _injected \cup DOMAIN _injected') \ DOMAIN locs :
                       /\ k \in DOMAIN _injected \cap DOMAIN _injected'
                       /\ _injected'[k] = _injected[k]

\* remove(where): what is left are the entries whose value where rejects
C21_RemoveStep ==
    \A where \in SUBSET Payloads :
        remove(where) =>
            /\ DOMAIN _injected' =
                  { k \in DOMAIN _injected :
                      ~(Truthy(_injected[k]) /\ _injected[k].n \in where) }
            /\ \A k \in DOMAIN _injected' : _injected'[k] = _injected[k]

\* C21: inject(locs, true) makes the override table equal to locs;
\* inject(locs, false) stores the truthy values of locs, deletes the keys
\* whose value in locs is falsy and leaves the other keys alone;
\* remove(where) leaves exactly the entries whose value does not satisfy
\* where.
C21_OverrideTableUpdates == [][C21_InjectStep /\ C21_RemoveStep]_vars

\* the table holds a null under one key, which only a wholesale
\* replacement stores, and locations under two more, one of them merged in
\* afterwards
C21_TableReplacedWholesale ==
    /\ DOMAIN _injected = {"Ab", "ab", "cd"}
    /\ _injected["cd"] = Undefined
    /\ Truthy(_injected["Ab"])
    /\ Truthy(_injected["ab"])

\* an insertion into a cache of more than MaxCacheSize +
\* MaxCacheSizeOverflow entries leaves at most MaxCacheSize + 1
C22_AfterEviction ==
    Cardinality(DOMAIN geocodeCache)
          > settings.MaxCacheSize + settings.MaxCacheSizeOverflow
       => Cardinality(DOMAIN geocodeCache') <= settings.MaxCacheSize + 1

\* C22 (actual size bound): the cache never holds more than MaxCacheSize +
\* MaxCacheSizeOverflow + 1 entries, and right after an insertion that
\* evicted it holds at most MaxCacheSize + 1.
C22_ActualSizeBound ==
    /\ [](Cardinality(DOMAIN geocodeCache)
             <= settings.MaxCacheSize + settings.MaxCacheSizeOverflow + 1)
    /\ [][C22_AfterEviction]_vars

\* two entries were evicted from a cache of MaxCacheSize + 2 and the new
\* one brought it to MaxCacheSize + 1
C22_ShrunkToMaxPlusOne ==
    /\ settings.MaxCacheSizeOverflow = 1
    /\ Cardinality(DOMAIN evicted) = 2
    /\ DOMAIN evicted \cap DOMAIN geocodeCache = {}
    /\ Cardinality(DOMAIN geocodeCache) = settings.MaxCacheSize + 1

\* C23 (work conservation): between operations, whenever an item waits in
\* geocodeQueue, activeRequests is at least settings.MaxAzureRequest: no
\* item waits while a slot is free.
C23_WorkConserving ==
    geocodeQueue # << >> => activeRequests >= settings.MaxAzureRequest

\* a release has run and dispatched the head of the queue, and the item
\* behind it still waits with every slot taken again
C23_RefilledWithBacklog ==
    /\ resets = 0
    /\ geocodeQueue # << >>
    /\ Len(dispatched) > settings.MaxAzureRequest
    /\ activeRequests = settings.MaxAzureRequest

\* the dispatched items whose releaseQuota(1) has not run: the fetch is
\* pending, or the timer is
Unreleased == { i \in Dispatched : i \in InFlight \/ i \in timers }

\* the timer of a dispatched item is set in the step that invokes its
\* callback and in no other, and only dispatched items have timers
C24_ScheduleStep ==
    /\ timers' \subseteq DispatchedNext
    /\ \A i \in DispatchedNext :
          (i \in timers' /\ i \notin timers)
             <=> (i \in CompletedNow /\ Len(calls'[i]) = 1)

C25_QueueDrains ==
    /\ \A i \in 1..MaxRequests :
          (i \in InQueue) ~> (i \in Dispatched /\ Len(calls[i]) = 1)
    /\ (geocodeQueue # << >> \/ activeRequests # 0)
          ~> (geocodeQueue = << >> /\ activeRequests = 0)

\* every request had to wait behind the first, and all of them have been
\* dispatched, completed and released
C25_BacklogDrained ==
    /\ Len(requests) = MaxRequests
    /\ \A i \in DOMAIN requests : requests[i].via = "queue"
    /\ settings.MaxAzureRequest = 1
    /\ Len(dispatched) = MaxRequests
    /\ \A i \in DOMAIN calls : Len(calls[i]) = 1
    /\ geocodeQueue = << >>
    /\ activeRequests = 0
    /\ timers = {}

====
